---- MODULE Spec2Model ----
(***************************************************************************)
(* State-machine model of index.js, the main process of the GPT desktop    *)
(* wrapper: the two window slots (mainWindow, notesWindow), the window      *)
(* lifecycle operations, the menu's command actions, the asynchronous      *)
(* export actions and the application lifecycle hooks.                     *)
(*                                                                         *)
(* The main process is single threaded: every handler runs to its next     *)
(* await (or to its end) as one step.  An async function is a sequence of  *)
(* steps, one per await; a callback handed to an accessor is a later step. *)
(* A window's destruction and its 'closed' listener are one step: the      *)
(* listener runs in the same turn in which the window becomes destroyed.   *)
(* Zoom factors are in tenths (10 is 1.0).                                 *)
(***************************************************************************)
EXTENDS Integers, FiniteSets, Sequences, TLC

\* ---------------------------------------------------------------- bounds
MaxWindows == 3
MaxTasks == 1
MaxZoom == 12
MaxZoomPending == 2
MaxOpenPending == 1

\* ------------------------------------------------------ program constants
Null == 0
ZoomFloor == 5
ZoomStep == 1
ZoomDefault == 10

Wins == 1..MaxWindows
Tasks == 1..MaxTasks
Platforms == {"darwin", "other"}
Canonical == "https://chatgpt.com"
Urls == {"", Canonical, "https://chatgpt.com/c/1"}
NotesUrl == "data:text/html"
Paths == {"a.out", "b.out"}
NoPath == ""
Kinds == {"pdf", "text", "png"}

VARIABLES
  platform,     \* process.platform
  appState,     \* "loading" | "ready" | "quit"
  shortcut,     \* the global shortcut is registered
  menu,         \* the application menu is set
  mainWindow,   \* the primary slot: a window id or Null
  notesWindow,  \* the notes slot: a window id or Null
  nextId,       \* id of the next BrowserWindow constructed
  win,          \* the BrowserWindow objects constructed so far
  focused,      \* the window holding the focus, or Null
  task,         \* the invocations of the async export actions
  files,        \* the file system at the prompted paths
  clipboard,    \* the system clipboard
  openPending,  \* shell.openExternal promises not yet settled
  zoomq,        \* getZoomFactor requests not yet called back
  last          \* what the last step was and which effects it had

vars == <<platform, appState, shortcut, menu, mainWindow, notesWindow, nextId,
          win, focused, task, files, clipboard, openPending, zoomq, last>>

winVars == <<mainWindow, notesWindow, nextId, win, focused>>
appVars == <<platform, appState, shortcut, menu>>
ioVars == <<task, files, clipboard, openPending>>

\* ------------------------------------------------------------ the objects

\* A BrowserWindow never constructed, or destroyed: no state can be read.
NoWindow ==
  [kind |-> "none", live |-> FALSE, url |-> "", zoom |-> ZoomDefault,
   visible |-> FALSE, minimized |-> FALSE, painted |-> FALSE,
   onTop |-> FALSE, full |-> FALSE, sized |-> TRUE]

Destroyed(w) == [NoWindow EXCEPT !.kind = win[w].kind]

\* new BrowserWindow({width: 900, height: 700, show: false}) + loadURL(home)
NewMain ==
  [NoWindow EXCEPT !.kind = "main", !.live = TRUE, !.url = Canonical]

\* new BrowserWindow({width: 400, height: 500}) + loadURL(data:...)
NewNotes ==
  [NoWindow EXCEPT !.kind = "notes", !.live = TRUE, !.url = NotesUrl,
                   !.visible = TRUE, !.painted = TRUE]

\* an invocation of an export action: where it is (pc), the window in the
\* slot when it was invoked, the window whose content it renders, the path
\* the prompt gave, and how it ended
IdleTask ==
  [pc |-> "idle", path |-> NoPath, invokedOn |-> Null, src |-> Null,
   outcome |-> "none", written |-> 0, errs |-> 0]

\* a file: absent ("none"), truncated ("partial") or the rendering of the
\* content of window src ("full")
NoFile == [state |-> "none", src |-> Null]

\* what the last step was: the handler or continuation that ran, whether it
\* showed a dialog, and whether it constructed a BrowserWindow
Last(op, dlg, created) == [op |-> op, dialog |-> dlg, created |-> created]

LiveWins == {w \in Wins : win[w].live}
LiveMain == {w \in Wins : win[w].live /\ win[w].kind = "main"}
LiveNotes == {w \in Wins : win[w].live /\ win[w].kind = "notes"}

\* !mainWindow || mainWindow.isDestroyed()
NoMain == mainWindow = Null \/ ~win[mainWindow].live

\* notesWindow && !notesWindow.isDestroyed()
HasNotes == notesWindow # Null /\ win[notesWindow].live

\* BrowserWindow.getAllWindows().length === 0
NoWindows == LiveWins = {}

Init ==
  /\ platform \in Platforms
  /\ appState = "loading"
  /\ shortcut = FALSE
  /\ menu = FALSE
  /\ mainWindow = Null
  /\ notesWindow = Null
  /\ nextId = 1
  /\ win = [w \in Wins |-> NoWindow]
  /\ focused = Null
  /\ task = [t \in Tasks |-> IdleTask]
  /\ files = [p \in Paths |-> NoFile]
  /\ clipboard = ""
  /\ openPending = 0
  /\ zoomq = <<>>
  /\ last = Last("init", FALSE, FALSE)

\* ----------------------------------------------------- window lifecycle

\* createMainWindow() with the new window bound to a local of the same name
createMainWindow_shadowed ==
  /\ nextId <= MaxWindows
  /\ win' = [win EXCEPT ![nextId] = NewMain]
  /\ nextId' = nextId + 1
  /\ UNCHANGED <<mainWindow, notesWindow, focused>>

\* createMainWindow(): construct, store in the slot, load the entry address
createMainWindow ==
  /\ nextId <= MaxWindows
  /\ mainWindow' = nextId
  /\ win' = [win EXCEPT ![nextId] = NewMain]
  /\ nextId' = nextId + 1
  /\ UNCHANGED <<notesWindow, focused>>

\* the 'ready-to-show' listener of window w: if (mainWindow) mainWindow.show()
ReadyToShow(w) ==
  /\ appState = "ready"
  /\ win[w].live /\ win[w].kind = "main" /\ ~win[w].painted
  /\ IF mainWindow # Null /\ win[mainWindow].live
       THEN /\ win' = [win EXCEPT ![w].painted = TRUE,
                                  ![mainWindow].painted = TRUE,
                                  ![mainWindow].visible = TRUE]
            /\ focused' = mainWindow
       ELSE /\ win' = [win EXCEPT ![w].painted = TRUE]
            /\ focused' = focused
  /\ last' = Last("readyToShow", FALSE, FALSE)
  /\ UNCHANGED <<mainWindow, notesWindow, nextId, appVars, ioVars, zoomq>>

\* ensureMainWindow() without its test of the slot
ensureMainWindow_unguarded ==
  /\ appState = "ready" /\ shortcut
  /\ nextId <= MaxWindows
  /\ mainWindow' = nextId
  /\ win' = [win EXCEPT ![nextId] = NewMain]
  /\ nextId' = nextId + 1
  /\ UNCHANGED <<notesWindow, focused>>
  /\ last' = Last("ensureMainWindow", FALSE, TRUE)
  /\ UNCHANGED <<appVars, ioVars, zoomq>>

\* ensureMainWindow(), the handler of the global shortcut
ensureMainWindow ==
  /\ appState = "ready" /\ shortcut
  /\ IF NoMain
       THEN createMainWindow
       ELSE /\ win' = [win EXCEPT ![mainWindow].minimized = FALSE,
                                  ![mainWindow].visible = TRUE]
            /\ focused' = mainWindow
            /\ UNCHANGED <<mainWindow, notesWindow, nextId>>
  /\ last' = Last("ensureMainWindow", FALSE, NoMain)
  /\ UNCHANGED <<appVars, ioVars, zoomq>>

\* newChat() that forgets to load the entry address into the existing window
newChat_noReload ==
  /\ appState = "ready"
  /\ IF NoMain
       THEN /\ nextId <= MaxWindows
            /\ mainWindow' = nextId
            /\ win' = [win EXCEPT ![nextId] = NewMain]
            /\ nextId' = nextId + 1
            /\ UNCHANGED <<notesWindow, focused>>
       ELSE UNCHANGED winVars
  /\ last' = Last("newChat", FALSE, NoMain)
  /\ UNCHANGED <<appVars, ioVars, zoomq>>

\* newChat(), File > New Chat
newChat ==
  /\ appState = "ready"
  /\ IF NoMain
       THEN createMainWindow
       ELSE /\ win' = [win EXCEPT ![mainWindow].url = Canonical]
            /\ UNCHANGED <<mainWindow, notesWindow, nextId, focused>>
  /\ last' = Last("newChat", FALSE, NoMain)
  /\ UNCHANGED <<appVars, ioVars, zoomq>>

\* createNotesWindow() without its test of the slot
createNotesWindow_unguarded ==
  /\ appState = "ready" /\ platform = "darwin"
  /\ nextId <= MaxWindows
  /\ notesWindow' = nextId
  /\ win' = [win EXCEPT ![nextId] = NewNotes]
  /\ nextId' = nextId + 1
  /\ focused' = nextId
  /\ UNCHANGED mainWindow
  /\ last' = Last("createNotesWindow", FALSE, TRUE)
  /\ UNCHANGED <<appVars, ioVars, zoomq>>

\* createNotesWindow(), Window > Notes Window (the Window menu is macOS only)
createNotesWindow ==
  /\ appState = "ready" /\ platform = "darwin"
  /\ IF HasNotes
       THEN /\ focused' = notesWindow
            /\ UNCHANGED <<mainWindow, notesWindow, nextId, win>>
       ELSE /\ nextId <= MaxWindows
            /\ notesWindow' = nextId
            /\ win' = [win EXCEPT ![nextId] = NewNotes]
            /\ nextId' = nextId + 1
            /\ focused' = nextId
            /\ UNCHANGED mainWindow
  /\ last' = Last("createNotesWindow", FALSE, ~HasNotes)
  /\ UNCHANGED <<appVars, ioVars, zoomq>>

\* app.on('will-quit'): globalShortcut.unregisterAll(), then the process ends
willQuit ==
  /\ shortcut' = FALSE
  /\ appState' = "quit"
  /\ UNCHANGED <<platform, menu>>

\* 'window-all-closed' without the platform test
windowAllClosed_everywhere ==
  /\ shortcut' = FALSE
  /\ appState' = "quit"
  /\ UNCHANGED <<platform, menu>>

\* app.on('window-all-closed'), emitted when the last window has closed
windowAllClosed ==
  IF platform # "darwin" THEN willQuit ELSE UNCHANGED appVars

\* the user closes window w: the window is destroyed and its 'closed'
\* listener clears the slot of its kind; then 'window-all-closed' if it was
\* the last one.  A getZoomFactor request to the destroyed page is never
\* answered, so its callback never runs.
CloseWindow(w) ==
  /\ appState = "ready"
  /\ win[w].live
  /\ win' = [win EXCEPT ![w] = Destroyed(w)]
  /\ mainWindow' = IF win[w].kind = "main" THEN Null ELSE mainWindow
  /\ notesWindow' = IF win[w].kind = "notes" THEN Null ELSE notesWindow
  /\ focused' = IF focused = w THEN Null ELSE focused
  /\ IF LiveWins = {w} THEN windowAllClosed ELSE UNCHANGED appVars
  /\ zoomq' = SelectSeq(zoomq, LAMBDA r : r.wc # w)
  /\ last' = Last("close", FALSE, FALSE)
  /\ UNCHANGED <<nextId, ioVars>>

\* role 'quit' (Cmd+Q, File > Quit): app.quit() closes every window, each
\* 'closed' listener runs, then 'will-quit'
UserQuit ==
  /\ appState = "ready"
  /\ win' = [w \in Wins |-> IF win[w].live THEN Destroyed(w) ELSE win[w]]
  /\ mainWindow' = IF LiveMain # {} THEN Null ELSE mainWindow
  /\ notesWindow' = IF LiveNotes # {} THEN Null ELSE notesWindow
  /\ focused' = Null
  /\ willQuit
  /\ zoomq' = <<>>
  /\ last' = Last("quit", FALSE, FALSE)
  /\ UNCHANGED <<nextId, ioVars>>

\* registerGlobalShortcuts(): register() may fail, which is only logged
registerGlobalShortcuts(ok) == shortcut' = ok

\* app.whenReady().then(...): name, menu, primary window, shortcut, and the
\* 'activate' hook
WhenReady ==
  /\ appState = "loading"
  /\ appState' = "ready"
  /\ menu' = TRUE
  /\ createMainWindow
  /\ \E ok \in BOOLEAN : registerGlobalShortcuts(ok)
  /\ last' = Last("whenReady", FALSE, TRUE)
  /\ UNCHANGED <<platform, ioVars, zoomq>>

\* app.on('activate') (macOS: the dock icon is clicked)
Activate ==
  /\ appState = "ready" /\ platform = "darwin"
  /\ IF NoWindows THEN createMainWindow ELSE UNCHANGED winVars
  /\ last' = Last("activate", FALSE, NoWindows)
  /\ UNCHANGED <<appVars, ioVars, zoomq>>

\* role 'minimize' (Window > Minimize, or the window's own button)
Minimize(w) ==
  /\ appState = "ready"
  /\ win[w].live /\ win[w].visible /\ ~win[w].minimized
  /\ win' = [win EXCEPT ![w].minimized = TRUE]
  /\ focused' = IF focused = w THEN Null ELSE focused
  /\ last' = Last("minimize", FALSE, FALSE)
  /\ UNCHANGED <<mainWindow, notesWindow, nextId, appVars, ioVars, zoomq>>

\* the remote page changes the address the primary window displays
Navigate(w, u) ==
  /\ appState = "ready"
  /\ win[w].live /\ win[w].kind = "main" /\ win[w].url # u
  /\ win' = [win EXCEPT ![w].url = u]
  /\ last' = Last("navigate", FALSE, FALSE)
  /\ UNCHANGED <<mainWindow, notesWindow, nextId, focused, appVars, ioVars, zoomq>>

\* ------------------------------------------------------ export actions

\* a catch block that only logs
catchBlock_silent(t, op, p) ==
  /\ task' = [task EXCEPT ![t] = [IdleTask EXCEPT !.outcome = "failed",
                                                  !.path = p,
                                                  !.written = task[t].written,
                                                  !.errs = task[t].errs]]
  /\ last' = Last(op, FALSE, FALSE)

\* the catch block of an export action, entered from step op of an
\* invocation whose prompt gave path p (NoPath: none yet): console.error,
\* dialog.showErrorBox, and the function returns
catchBlock(t, op, p) ==
  /\ task' = [task EXCEPT ![t] = [IdleTask EXCEPT !.outcome = "failed",
                                                  !.path = p,
                                                  !.written = task[t].written,
                                                  !.errs = task[t].errs + 1]]
  /\ last' = Last(op, TRUE, FALSE)

\* an export action without its test of the slot: the save dialog opens
\* without a parent window
InvokeExport_unguarded(t, k) ==
  /\ appState = "ready"
  /\ task[t].pc = "idle"
  /\ task' = [task EXCEPT ![t] = [IdleTask EXCEPT !.pc = "prompt",
                                                  !.invokedOn = mainWindow]]
  /\ last' = Last(k, TRUE, FALSE)
  /\ UNCHANGED <<winVars, appVars, files, clipboard, openPending, zoomq>>

\* saveChatAsPdf / saveChatAsText / screenshotWindow, up to the first await:
\* return without a live primary window, else open the save dialog on it
InvokeExport(t, k) ==
  /\ appState = "ready"
  /\ IF NoMain
       THEN task' = task
       ELSE /\ task[t].pc = "idle"
            /\ task' = [task EXCEPT ![t] = [IdleTask EXCEPT !.pc = "prompt",
                                                           !.invokedOn = mainWindow]]
  /\ last' = Last(k, ~NoMain, FALSE)
  /\ UNCHANGED <<winVars, appVars, files, clipboard, openPending, zoomq>>

\* the save dialog resolves with canceled (or without a path): return
PromptCanceled(t) ==
  /\ appState = "ready"
  /\ task[t].pc = "prompt"
  /\ task' = [task EXCEPT ![t] = [IdleTask EXCEPT !.outcome = "canceled"]]
  /\ last' = Last("promptCanceled", FALSE, FALSE)
  /\ UNCHANGED <<winVars, appVars, files, clipboard, openPending, zoomq>>

\* the save dialog rejects: the catch block
PromptRejected(t) ==
  /\ appState = "ready"
  /\ task[t].pc = "prompt"
  /\ catchBlock(t, "promptRejected", NoPath)
  /\ UNCHANGED <<winVars, appVars, files, clipboard, openPending, zoomq>>

\* the save dialog resolves with path p: mainWindow.webContents.printToPDF /
\* executeJavaScript / capturePage is called on what the slot holds NOW; an
\* empty slot or a destroyed window throws into the catch block
PromptConfirmed(t, p) ==
  /\ appState = "ready"
  /\ task[t].pc = "prompt"
  /\ IF NoMain
       THEN catchBlock(t, "promptConfirmed", p)
       ELSE /\ task' = [task EXCEPT ![t].pc = "render", ![t].path = p,
                                    ![t].src = mainWindow]
            /\ last' = Last("promptConfirmed", FALSE, FALSE)
  /\ UNCHANGED <<winVars, appVars, files, clipboard, openPending, zoomq>>

\* the render / capture promise resolves: fs.promises.writeFile is started
RenderDone(t) ==
  /\ appState = "ready"
  /\ task[t].pc = "render"
  /\ win[task[t].src].live
  /\ task' = [task EXCEPT ![t].pc = "write"]
  /\ last' = Last("renderDone", FALSE, FALSE)
  /\ UNCHANGED <<winVars, appVars, files, clipboard, openPending, zoomq>>

\* the render / capture promise rejects: the catch block
RenderFailed(t) ==
  /\ appState = "ready"
  /\ task[t].pc = "render"
  /\ catchBlock(t, "renderFailed", task[t].path)
  /\ UNCHANGED <<winVars, appVars, files, clipboard, openPending, zoomq>>

\* writeFile called with the suggested default path, not the chosen one
WriteDone_defaultPath(t) ==
  /\ appState = "ready"
  /\ task[t].pc = "write"
  /\ files' = [files EXCEPT !["a.out"] = [state |-> "full", src |-> task[t].src]]
  /\ task' = [task EXCEPT ![t] = [IdleTask EXCEPT !.outcome = "success",
                                                  !.path = task[t].path,
                                                  !.written = task[t].written + 1]]
  /\ last' = Last("writeDone", FALSE, FALSE)
  /\ UNCHANGED <<winVars, appVars, clipboard, openPending, zoomq>>

\* writeFile resolves: the file at the chosen path holds the rendered data
WriteDone(t) ==
  /\ appState = "ready"
  /\ task[t].pc = "write"
  /\ files' = [files EXCEPT ![task[t].path] =
                              [state |-> "full", src |-> task[t].src]]
  /\ task' = [task EXCEPT ![t] = [IdleTask EXCEPT !.outcome = "success",
                                                  !.path = task[t].path,
                                                  !.written = task[t].written + 1]]
  /\ last' = Last("writeDone", FALSE, FALSE)
  /\ UNCHANGED <<winVars, appVars, clipboard, openPending, zoomq>>

\* writeFile rejects: the catch block; the file may be left untouched or
\* truncated
WriteFailed(t, truncated) ==
  /\ appState = "ready"
  /\ task[t].pc = "write"
  /\ files' = IF truncated
                THEN [files EXCEPT ![task[t].path] =
                                     [state |-> "partial", src |-> Null]]
                ELSE files
  /\ catchBlock(t, "writeFailed", task[t].path)
  /\ UNCHANGED <<winVars, appVars, clipboard, openPending, zoomq>>

ExportSteps ==
  \/ \E t \in Tasks : PromptCanceled(t)
  \/ \E t \in Tasks : PromptRejected(t)
  \/ \E t \in Tasks, p \in Paths : PromptConfirmed(t, p)
  \/ \E t \in Tasks : RenderDone(t)
  \/ \E t \in Tasks : RenderFailed(t)
  \/ \E t \in Tasks : WriteDone(t)
  \/ \E t \in Tasks, tr \in BOOLEAN : WriteFailed(t, tr)

\* ------------------------------------------------ other command actions

\* File > Reload Chat
reloadChat ==
  /\ appState = "ready"
  /\ last' = Last("reload", FALSE, FALSE)
  /\ UNCHANGED <<winVars, appVars, ioVars, zoomq>>

\* copyChatUrl(), File > Copy Chat URL; clipboard.writeText may throw
copyChatUrl(ok) ==
  /\ appState = "ready"
  /\ IF NoMain \/ win[mainWindow].url = ""
       THEN /\ clipboard' = clipboard
            /\ last' = Last("copyChatUrl", FALSE, FALSE)
       ELSE IF ok
         THEN /\ clipboard' = win[mainWindow].url
              /\ last' = Last("copyChatUrl", FALSE, FALSE)
         ELSE /\ clipboard' = clipboard
              /\ last' = Last("copyChatUrl", TRUE, FALSE)
  /\ UNCHANGED <<winVars, appVars, task, files, openPending, zoomq>>

\* openInBrowser(), File > Open in Browser
openInBrowser ==
  /\ appState = "ready"
  /\ IF NoMain \/ win[mainWindow].url = ""
       THEN openPending' = openPending
       ELSE /\ openPending < MaxOpenPending
            /\ openPending' = openPending + 1
  /\ last' = Last("openInBrowser", FALSE, FALSE)
  /\ UNCHANGED <<winVars, appVars, task, files, clipboard, zoomq>>

\* shell.openExternal resolves, or rejects into its .catch: showErrorBox
OpenExternalSettled(ok) ==
  /\ appState = "ready"
  /\ openPending > 0
  /\ openPending' = openPending - 1
  /\ last' = Last("openExternalSettled", ~ok, FALSE)
  /\ UNCHANGED <<winVars, appVars, task, files, clipboard, zoomq>>

\* resetWindowSize(), View > Reset Window Size: setSize(900, 700), center()
resetWindowSize ==
  /\ appState = "ready"
  /\ IF NoMain
       THEN win' = win
       ELSE win' = [win EXCEPT ![mainWindow].sized = TRUE]
  /\ last' = Last("resetWindowSize", FALSE, FALSE)
  /\ UNCHANGED <<mainWindow, notesWindow, nextId, focused, appVars, ioVars, zoomq>>

\* the user resizes or moves window w
Resize(w) ==
  /\ appState = "ready"
  /\ win[w].live /\ win[w].kind = "main" /\ win[w].sized
  /\ win' = [win EXCEPT ![w].sized = FALSE]
  /\ last' = Last("resize", FALSE, FALSE)
  /\ UNCHANGED <<mainWindow, notesWindow, nextId, focused, appVars, ioVars, zoomq>>

\* View > Toggle Full Screen
toggleFullScreen ==
  /\ appState = "ready"
  /\ IF NoMain
       THEN win' = win
       ELSE win' = [win EXCEPT ![mainWindow].full = ~win[mainWindow].full]
  /\ last' = Last("toggleFullScreen", FALSE, FALSE)
  /\ UNCHANGED <<mainWindow, notesWindow, nextId, focused, appVars, ioVars, zoomq>>

\* Window > Always On Top (the Window menu is macOS only)
toggleAlwaysOnTop ==
  /\ appState = "ready" /\ platform = "darwin"
  /\ IF NoMain
       THEN win' = win
       ELSE win' = [win EXCEPT ![mainWindow].onTop = ~win[mainWindow].onTop]
  /\ last' = Last("toggleAlwaysOnTop", FALSE, FALSE)
  /\ UNCHANGED <<mainWindow, notesWindow, nextId, focused, appVars, ioVars, zoomq>>

\* ------------------------------------------------------------------ zoom

Max(a, b) == IF a >= b THEN a ELSE b

Remove(q, i) == [j \in 1..(Len(q) - 1) |-> IF j < i THEN q[j] ELSE q[j + 1]]

\* f => f + 0.1
zoomIn(f) == f + ZoomStep

\* zoom out without the floor
zoomOut_noFloor(f) == f - ZoomStep

\* f => Math.max(0.5, f - 0.1)
zoomOut(f) == Max(ZoomFloor, f - ZoomStep)

\* View > Zoom In / Zoom Out, the click handler: return without a live
\* primary window, else wc.getZoomFactor(callback) on its webContents
ZoomClick(op) ==
  /\ appState = "ready"
  /\ IF NoMain
       THEN zoomq' = zoomq
       ELSE /\ Len(zoomq) < MaxZoomPending
            /\ zoomq' = Append(zoomq, [op |-> op, wc |-> mainWindow,
                                       read |-> FALSE, f |-> 0])
  /\ last' = Last(op, FALSE, FALSE)
  /\ UNCHANGED <<winVars, appVars, ioVars>>

\* getZoomFactor reads the factor of the page, some time after the request
\* (a zoom-in request is not answered while it would pass MaxZoom, the bound
\* of this model on the factor)
ZoomRead(i) ==
  /\ appState = "ready"
  /\ i \in DOMAIN zoomq
  /\ ~zoomq[i].read
  /\ win[zoomq[i].wc].live
  /\ zoomq[i].op = "zoomIn" => zoomIn(win[zoomq[i].wc].zoom) <= MaxZoom
  /\ zoomq' = [zoomq EXCEPT ![i].read = TRUE, ![i].f = win[zoomq[i].wc].zoom]
  /\ last' = Last("zoomRead", FALSE, FALSE)
  /\ UNCHANGED <<winVars, appVars, ioVars>>

\* the callback f => wc.setZoomFactor(...) runs with the factor that was read
ZoomCallback(i) ==
  /\ appState = "ready"
  /\ i \in DOMAIN zoomq
  /\ zoomq[i].read
  /\ win[zoomq[i].wc].live
  /\ zoomq' = Remove(zoomq, i)
  /\ win' = [win EXCEPT ![zoomq[i].wc].zoom =
               IF zoomq[i].op = "zoomIn" THEN zoomIn(zoomq[i].f)
                                         ELSE zoomOut(zoomq[i].f)]
  /\ last' = Last("zoomCallback", FALSE, FALSE)
  /\ UNCHANGED <<mainWindow, notesWindow, nextId, focused, appVars, ioVars>>

\* View > Reset Zoom: setZoomFactor(1.0)
resetZoom ==
  /\ appState = "ready"
  /\ IF NoMain
       THEN win' = win
       ELSE win' = [win EXCEPT ![mainWindow].zoom = ZoomDefault]
  /\ last' = Last("resetZoom", FALSE, FALSE)
  /\ UNCHANGED <<mainWindow, notesWindow, nextId, focused, appVars, ioVars, zoomq>>

\* ------------------------------------------------------- specifications

\* the window lifecycle manager and the application lifecycle hooks
Lifecycle ==
  \/ WhenReady
  \/ ensureMainWindow
  \/ newChat
  \/ createNotesWindow
  \/ Activate
  \/ UserQuit
  \/ \E w \in Wins : CloseWindow(w)
  \/ \E w \in Wins : ReadyToShow(w)
  \/ \E w \in Wins : Minimize(w)
  \/ \E w \in Wins, u \in Urls : Navigate(w, u)
  \/ \E w \in Wins : Resize(w)
  \/ resetWindowSize

\* what creates and destroys the primary window
Core ==
  \/ WhenReady
  \/ newChat
  \/ Activate
  \/ UserQuit
  \/ \E w \in Wins : CloseWindow(w)

Next == Lifecycle

\* the export actions, step by step, among window closes and re-creations
NextExport ==
  \/ Core
  \/ \E t \in Tasks, k \in Kinds : InvokeExport(t, k)
  \/ ExportSteps

\* the zoom actions among window closes and re-creations
NextZoom ==
  \/ Core
  \/ \E op \in {"zoomIn", "zoomOut"} : ZoomClick(op)
  \/ \E i \in 1..MaxZoomPending : ZoomRead(i)
  \/ \E i \in 1..MaxZoomPending : ZoomCallback(i)
  \/ resetZoom

\* every command action of the menu (the handler each click runs, up to its
\* first suspension), among window closes and re-creations
NextCmd ==
  \/ Core
  \/ reloadChat
  \/ \E ok \in BOOLEAN : copyChatUrl(ok)
  \/ openInBrowser
  \/ \E ok \in BOOLEAN : OpenExternalSettled(ok)
  \/ \E t \in Tasks, k \in Kinds : InvokeExport(t, k)
  \/ \E t \in Tasks : PromptCanceled(t)
  \/ resetWindowSize
  \/ toggleFullScreen
  \/ toggleAlwaysOnTop
  \/ \E op \in {"zoomIn", "zoomOut"} : ZoomClick(op)
  \/ resetZoom

Spec == Init /\ [][Next]_vars

SpecExport == Init /\ [][NextExport]_vars

SpecZoom == Init /\ [][NextZoom]_vars

SpecCmd == Init /\ [][NextCmd]_vars

\* ------------------------------------------------------------ properties

\* C1: at most one live primary window exists in every reachable state,
\* whatever sequence of global-hotkey calls, new chats, activations and
\* window closes led to it.
C1_AtMostOnePrimary == Cardinality(LiveMain) <= 1

\* the hotkey has re-created the primary window after an earlier one closed
C1_Witness ==
  /\ last.op = "ensureMainWindow"
  /\ last.created
  /\ Cardinality(LiveMain) = 1
  /\ \E w \in Wins : win[w].kind = "main" /\ ~win[w].live

\* the operations the menu binds to its entries
CommandOps ==
  {"newChat", "reload", "copyChatUrl", "openInBrowser", "pdf", "text", "png",
   "resetWindowSize", "zoomIn", "zoomOut", "resetZoom", "toggleFullScreen",
   "toggleAlwaysOnTop"}

\* a step showed no dialog, wrote no file, left the clipboard alone, started
\* no asynchronous work and constructed no window
NoEffect ==
  /\ ~last'.dialog
  /\ files' = files
  /\ clipboard' = clipboard
  /\ task' = task
  /\ openPending' = openPending
  /\ zoomq' = zoomq
  /\ winVars' = winVars

\* C2 as stated: every command action invoked without a live primary window
\* shows no dialog, writes no file, leaves the clipboard alone and creates
\* no window.
C2_Original ==
  [][last'.op \in CommandOps /\ NoMain => NoEffect]_vars

\* C2, amended: every command action other than new chat, invoked without a
\* live primary window, has no effect at all; new chat then constructs one
\* primary window and shows no dialog, writes no file and leaves the
\* clipboard alone.
C2_NoOpWithoutWindow ==
  /\ [][last'.op \in CommandOps \ {"newChat"} /\ NoMain => NoEffect]_vars
  /\ [][last'.op = "newChat" /\ NoMain =>
          /\ ~last'.dialog
          /\ files' = files
          /\ clipboard' = clipboard
          /\ task' = task
          /\ LiveMain' = {nextId}
          /\ nextId' = nextId + 1]_vars

\* a command other than new chat was invoked with the primary slot empty
C2_Witness ==
  /\ appState = "ready"
  /\ last.op \in CommandOps \ {"newChat"}
  /\ NoMain

\* C3 as stated: an invocation whose prompt was canceled wrote no file, and
\* one whose prompt was confirmed with a path wrote exactly one.
C3_Original ==
  \A t \in Tasks :
    task[t].pc = "idle" =>
      /\ task[t].outcome = "canceled" => task[t].written = 0
      /\ task[t].path # NoPath => task[t].written = 1

\* C3, amended: a canceled prompt writes no file; after a confirmed prompt
\* the invocation touches no path but the chosen one and completes at most
\* one write there: exactly one, leaving the whole rendering at that path,
\* when it ends without an error, and none when it ends in its catch block
\* (the slot was empty at the prompt's return, or the render or the write
\* failed).
C3_ExportWrites ==
  /\ [](\A t \in Tasks :
          /\ task[t].pc # "idle" => task[t].written = 0
          /\ task[t].pc = "idle" =>
               /\ task[t].outcome = "canceled" =>
                    task[t].written = 0 /\ task[t].path = NoPath
               /\ task[t].outcome = "failed" => task[t].written = 0
               /\ task[t].outcome = "success" =>
                    task[t].written = 1 /\ task[t].path \in Paths)
  /\ [][files' # files =>
          \E t \in Tasks :
            /\ task[t].pc = "write"
            /\ task'[t].pc = "idle"
            /\ \A p \in Paths \ {task[t].path} : files'[p] = files[p]]_vars
  /\ [][\A t \in Tasks :
          task[t].pc = "write" /\ task'[t].outcome = "success" =>
            files'[task[t].path] = [state |-> "full", src |-> task[t].src]]_vars
  /\ [][\A t \in Tasks :
          task[t].pc = "prompt" /\ task'[t].outcome = "canceled" =>
            files' = files]_vars

\* a confirmed export has completed and its file is at the chosen path
C3_Witness ==
  \E t \in Tasks :
    /\ task[t].pc = "idle"
    /\ task[t].outcome = "success"
    /\ task[t].path = "b.out"
    /\ files["b.out"].state = "full"
    /\ files["a.out"].state = "none"

\* the steps an invocation may take: one pass, no step back
ExportOrder ==
  {<<"idle", "prompt">>, <<"prompt", "idle">>, <<"prompt", "render">>,
   <<"render", "write">>, <<"render", "idle">>, <<"write", "idle">>}

\* C4: a failure in an export action (the prompt, the render or capture, the
\* write, or the slot found empty or destroyed after the prompt) ends that
\* invocation: one error dialog, no second attempt, the action idle again,
\* and both window slots and every window as they were.
C4_FailureIsTerminal ==
  /\ [](\A t \in Tasks :
          /\ task[t].errs <= 1
          /\ task[t].outcome = "failed" => task[t].pc = "idle" /\ task[t].errs = 1
          /\ task[t].outcome # "failed" => task[t].errs = 0)
  /\ [][\A t \in Tasks :
          task[t].pc # "idle" /\ task'[t].outcome = "failed" =>
            /\ last'.dialog
            /\ mainWindow' = mainWindow
            /\ notesWindow' = notesWindow
            /\ win' = win]_vars
  /\ [][\A t \in Tasks :
          task'[t].pc # task[t].pc =>
            <<task[t].pc, task'[t].pc>> \in ExportOrder]_vars

\* an export failed because the primary window was gone when the prompt
\* returned a path
C4_Witness ==
  \E t \in Tasks :
    /\ last.op = "promptConfirmed"
    /\ last.dialog
    /\ task[t].outcome = "failed"
    /\ task[t].errs = 1
    /\ NoMain

\* C5: newChat() with a live primary window creates no window, keeps the
\* slot on the same window and sets that window's address to the entry
\* address; with none it creates one, loaded at the entry address.
C5_NewChat ==
  [][last'.op = "newChat" =>
       IF NoMain
         THEN /\ mainWindow' = nextId
              /\ LiveWins' = LiveWins \cup {nextId}
              /\ win'[nextId].kind = "main"
              /\ win'[nextId].url = Canonical
         ELSE /\ mainWindow' = mainWindow
              /\ nextId' = nextId
              /\ LiveWins' = LiveWins
              /\ win'[mainWindow].url = Canonical]_vars

\* a new chat was started in the existing window
C5_Witness ==
  /\ last.op = "newChat"
  /\ ~last.created
  /\ mainWindow \in LiveMain
  /\ win[mainWindow].url = Canonical

\* C6: at most one live notes window exists; createNotesWindow() called
\* while one is live only focuses it, otherwise it leaves exactly one.
C6_OneNotes ==
  /\ [](Cardinality(LiveNotes) <= 1)
  /\ [][last'.op = "createNotesWindow" =>
          /\ Cardinality(LiveNotes') = 1
          /\ notesWindow' \in LiveNotes'
          /\ focused' = notesWindow'
          /\ HasNotes => /\ win' = win
                         /\ notesWindow' = notesWindow
                         /\ nextId' = nextId]_vars

\* the notes window was requested again while it was open
C6_Witness ==
  /\ last.op = "createNotesWindow"
  /\ ~last.created
  /\ Cardinality(LiveNotes) = 1
  /\ focused = notesWindow

\* C7 as stated: the factor never falls below 0.5, every zoom-out lowers the
\* factor the window shows by 0.1 down to that floor, and a reset sets 1.0.
C7_Original ==
  /\ [](\A w \in Wins : win[w].zoom >= ZoomFloor)
  /\ [][\A i \in 1..MaxZoomPending :
          i \in DOMAIN zoomq /\ zoomq[i].op = "zoomOut" /\ ZoomCallback(i) =>
            win'[zoomq[i].wc].zoom =
              Max(ZoomFloor, win[zoomq[i].wc].zoom - ZoomStep)]_vars
  /\ [][last'.op = "resetZoom" /\ ~NoMain =>
          win'[mainWindow].zoom = ZoomDefault]_vars

\* C7, amended: the factor never falls below 0.5; every zoom-out sets the
\* factor to max(0.5, f - 0.1) for the factor f its getZoomFactor read,
\* which is 0.1 below what the window shows (down to the floor) when no
\* other zoom action changed the factor between that read and the callback;
\* a reset sets exactly 1.0.
C7_Zoom ==
  /\ [](\A w \in Wins : win[w].zoom >= ZoomFloor)
  /\ [][\A i \in 1..MaxZoomPending :
          i \in DOMAIN zoomq /\ zoomq[i].op = "zoomOut" /\ ZoomCallback(i) =>
            /\ win'[zoomq[i].wc].zoom = Max(ZoomFloor, zoomq[i].f - ZoomStep)
            /\ zoomq[i].f = win[zoomq[i].wc].zoom =>
                 win'[zoomq[i].wc].zoom =
                   Max(ZoomFloor, win[zoomq[i].wc].zoom - ZoomStep)]_vars
  /\ [][last'.op = "resetZoom" /\ ~NoMain =>
          win'[mainWindow].zoom = ZoomDefault]_vars

\* zoom-outs have brought the primary window down to the floor
C7_Witness ==
  /\ last.op = "zoomCallback"
  /\ mainWindow \in LiveMain
  /\ win[mainWindow].zoom = ZoomFloor

\* C8: closing the last window ends the process except on darwin, where it
\* stays up without windows and 'activate' then creates a primary window;
\* when the process has ended no global shortcut is registered.
C8_LastWindow ==
  /\ [](appState = "ready" /\ NoWindows => platform = "darwin")
  /\ [](appState = "quit" => ~shortcut)
  /\ [][last'.op = "close" /\ LiveWins' = {} =>
          IF platform = "darwin" THEN appState' = "ready"
                                 ELSE appState' = "quit"]_vars
  /\ [][last'.op = "activate" /\ NoWindows =>
          /\ mainWindow' = nextId
          /\ LiveMain' = {nextId}]_vars

\* on darwin the process outlived its last window and was activated again
C8_Witness ==
  /\ platform = "darwin"
  /\ last.op = "activate"
  /\ last.created
  /\ appState = "ready"
  /\ mainWindow \in LiveMain

\* C9: every live primary window is the one the slot refers to, so the
\* 'closed' listener of an earlier window never clears the slot of a later,
\* still live one.
C9_SlotConsistent == \A w \in LiveMain : mainWindow = w

\* an earlier primary window has closed and a later one is in the slot
C9_Witness ==
  \E w1 \in Wins, w2 \in Wins :
    /\ w1 < w2
    /\ win[w1].kind = "main" /\ ~win[w1].live
    /\ win[w2].kind = "main" /\ win[w2].live
    /\ mainWindow = w2

\* C10: the file an export action writes holds the content of the primary
\* window the action was invoked on, also when that window was closed and
\* another one created while the action waited at its prompt.
C10_RendersInvokedWindow ==
  [][\A t \in Tasks :
       task[t].pc = "write" /\ task'[t].outcome = "success" =>
         files'[task[t].path].src = task[t].invokedOn]_vars
====
